---- MODULE Spec2Model ----
(* Model of the CRD reconciler of pkg/k8s/apis/cilium.io/v2/client/register.go. *)
(* Agents run CreateCustomResourceDefinitions against one control plane; each  *)
(* control-plane call (Get, Create, Update, Delete) is one atomic step, taken  *)
(* together with the local code that follows it up to the next call.           *)
(*                                                                             *)
(* The control plane stores one object per kind and serves it on the v1 and    *)
(* the v1beta1 surface. It sets the object's conditions asynchronously, may    *)
(* answer any call with a server error, and rejects an Update of an object     *)
(* that was written after the updater fetched it (resourceVersion conflict).   *)
(* A failed Get leaves the zero-valued object in the caller's variable, as the *)
(* generated clientset does.                                                   *)
(*                                                                             *)
(* The kinds are reconciled by independent goroutines that touch disjoint      *)
(* objects. Kinds holds one of the kinds that are always reconciled, AllKinds  *)
(* adds the identity kind, which is reconciled in CRD allocation mode only.    *)
EXTENDS Integers, Sequences, FiniteSets, TLC

(* ------------------------------------------------------------------ bounds *)
\* Poll attempts that fit in the timeout budget (the code: 60 s / 500 ms).
TimeoutTicks == 2
\* Control-plane calls that may fail with a server error in one behaviour.
MaxFaults == 1
\* Times one agent may call CreateCustomResourceDefinitions.
MaxRuns == 2
\* Conditions in the status of an object handed to the ready predicate.
MaxConds == 2

(* --------------------------------------------------------------- universe *)
Procs == {"a1", "a2"}
Kinds == {"cnp"}
AllKinds == Kinds \cup {"identity"}
Tasks == Procs \X AllKinds

\* option.Config.IdentityAllocationMode
IdentityAllocationModes == {"crd", "kvstore"}
IdentityAllocationModeCRD == "crd"
Surfaces == {"v1", "v1beta1"}

\* Qualified object name of a kind (k8sconstv2.CNPName, ...).
CRDName(k) == IF k = "cnp" THEN "ciliumnetworkpolicies.cilium.io"
              ELSE "ciliumidentities.cilium.io"

\* k8sconstv2.CustomResourceDefinitionSchemaVersion, the baseline label value.
CustomResourceDefinitionSchemaVersion == "2.0.0"

\* versioncheck.Version: parse a label value; err for an unparsable one.
Version(s) ==
    CASE s = "1.0.0" -> [err |-> FALSE, n |-> 1]
      [] s = "2.0.0" -> [err |-> FALSE, n |-> 2]
      [] s = "3.0.0" -> [err |-> FALSE, n |-> 3]
      [] OTHER       -> [err |-> TRUE,  n |-> 0]

\* versioncheck.MustVersion(CustomResourceDefinitionSchemaVersion)
comparableCRDSchemaVersion == Version(CustomResourceDefinitionSchemaVersion).n

\* Label maps: <<>> has no schema-version key, <<s>> maps the key to s.
LabelValues == {"junk", "1.0.0", "2.0.0", "3.0.0"}
LabelMaps == {<<>>} \cup {<<s>> : s \in LabelValues}

\* Spec payloads: without a validation schema, an older schema, the baseline.
Specs == {"noschema", "old", "base"}

(* ------------------------------------------------------------- conditions *)
Reasons == {"ListKindConflict", "PluralConflict"}

Cond(t, s, r) == [type |-> t, status |-> s, reason |-> r]

CondsNone == <<>>
CondsAccepted == <<Cond("NamesAccepted", "True", "NoConflicts")>>
CondsEstablished ==
    <<Cond("NamesAccepted", "True", "NoConflicts"),
      Cond("Established", "True", "InitialNamesAccepted")>>
CondsConflict(r) ==
    <<Cond("NamesAccepted", "False", r),
      Cond("Established", "False", "NotAccepted")>>

CondLists == {CondsNone, CondsAccepted, CondsEstablished}
             \cup {CondsConflict(r) : r \in Reasons}

(* ---------------------------------------------------------------- objects *)
\* The zero value of a CustomResourceDefinition struct.
EmptyCRD == [name |-> "", labels |-> <<>>, spec |-> "noschema", conds |-> <<>>]

\* GetPregeneratedCRD + constructV1CRD: the baseline object of a kind.
constructV1CRD(k) ==
    [name   |-> CRDName(k),
     labels |-> <<CustomResourceDefinitionSchemaVersion>>,
     spec   |-> "base",
     conds  |-> <<>>]

\* convertToV1Beta1CRD: the same object in the legacy shape; the schema of
\* Spec.Versions[0].Schema becomes Spec.Validation.
convertToV1Beta1CRD(crd) ==
    [name   |-> crd.name,
     labels |-> crd.labels,
     spec   |-> crd.spec,
     conds  |-> crd.conds]

\* Control-plane record of one kind: absent, or the stored object.
Absent == [exists |-> FALSE, obj |-> EmptyCRD]
Stored(o) == [exists |-> TRUE, obj |-> o]

ClusterStates(k) ==
    {Absent} \cup
    {Stored([name |-> CRDName(k), labels |-> l, spec |-> s, conds |-> c]) :
        l \in LabelMaps, s \in Specs, c \in CondLists}

(* ----------------------------------------------------------------- errors *)
\* An error is the sequence of its message parts; <<>> is nil.
Nil == <<>>
ErrServer == <<"ServerError">>
ErrNotFound == <<"NotFound">>
ErrAlreadyExists == <<"AlreadyExists">>
ErrConflict == <<"Conflict">>
ErrInvalidName == <<"InvalidName">>
ErrWaitTimeout == <<"timed out waiting for the condition">>
Errorf(prefix, e) == <<prefix>> \o e

(* ------------------------------------------------------------ comparator *)
\* needsUpdateV1 with LE in place of LT: a label equal to baseline counts as stale.
needsUpdateV1_LE(clusterCRD) ==
    IF clusterCRD.spec = "noschema" THEN TRUE
    ELSE IF clusterCRD.labels = <<>> THEN TRUE
    ELSE LET clusterVersion == Version(clusterCRD.labels[1])
         IN  clusterVersion.err \/ clusterVersion.n <= comparableCRDSchemaVersion

needsUpdateV1(clusterCRD) ==
    IF clusterCRD.spec = "noschema" THEN TRUE
    ELSE IF clusterCRD.labels = <<>> THEN TRUE
    ELSE LET clusterVersion == Version(clusterCRD.labels[1])
         IN  clusterVersion.err \/ clusterVersion.n < comparableCRDSchemaVersion

\* needsUpdateV1beta1 without the test for a missing validation schema.
needsUpdateV1beta1_IgnoresSchema(clusterCRD) ==
    IF clusterCRD.labels = <<>> THEN TRUE
    ELSE LET clusterVersion == Version(clusterCRD.labels[1])
         IN  clusterVersion.err \/ clusterVersion.n < comparableCRDSchemaVersion

needsUpdateV1beta1(clusterCRD) ==
    IF clusterCRD.spec = "noschema" THEN TRUE
    ELSE IF clusterCRD.labels = <<>> THEN TRUE
    ELSE LET clusterVersion == Version(clusterCRD.labels[1])
         IN  clusterVersion.err \/ clusterVersion.n < comparableCRDSchemaVersion

(* -------------------------------------------------------- ready predicate *)
\* The loop over crd.Status.Conditions of the ready predicate: the first
\* Established=True ends it with "done", the first NamesAccepted=False with
\* "conflict" and the condition's reason; any other condition is skipped.
\* ScanV1 without the return in the NamesAccepted case: the loop goes on.
RECURSIVE ScanV1_NoConflictReturn(_)
ScanV1_NoConflictReturn(conds) ==
    IF conds = <<>> THEN [verdict |-> "none", reason |-> ""]
    ELSE LET cond == Head(conds)
         IN  IF cond.type = "Established" /\ cond.status = "True"
             THEN [verdict |-> "done", reason |-> ""]
             ELSE ScanV1_NoConflictReturn(Tail(conds))

\* ScanV1 that takes NamesAccepted=True for the sign that the object is ready.
RECURSIVE ScanV1_AcceptedIsDone(_)
ScanV1_AcceptedIsDone(conds) ==
    IF conds = <<>> THEN [verdict |-> "none", reason |-> ""]
    ELSE LET cond == Head(conds)
         IN  IF cond.type \in {"Established", "NamesAccepted"} /\ cond.status = "True"
             THEN [verdict |-> "done", reason |-> ""]
             ELSE IF cond.type = "NamesAccepted" /\ cond.status = "False"
             THEN [verdict |-> "conflict", reason |-> cond.reason]
             ELSE ScanV1_AcceptedIsDone(Tail(conds))

\* ScanV1 that reports a NamesAccepted=False found anywhere in the list before
\* it looks for Established=True.
ScanV1_ConflictWins(conds) ==
    LET conf == {i \in 1..Len(conds) :
                    conds[i].type = "NamesAccepted" /\ conds[i].status = "False"}
        est  == {i \in 1..Len(conds) :
                    conds[i].type = "Established" /\ conds[i].status = "True"}
    IN  IF conf # {}
        THEN [verdict |-> "conflict",
              reason  |-> conds[CHOOSE i \in conf : \A j \in conf : i <= j].reason]
        ELSE IF est # {} THEN [verdict |-> "done", reason |-> ""]
        ELSE [verdict |-> "none", reason |-> ""]

RECURSIVE ScanV1(_)
ScanV1(conds) ==
    IF conds = <<>> THEN [verdict |-> "none", reason |-> ""]
    ELSE LET cond == Head(conds)
         IN  IF cond.type = "Established" /\ cond.status = "True"
             THEN [verdict |-> "done", reason |-> ""]
             ELSE IF cond.type = "NamesAccepted" /\ cond.status = "False"
             THEN [verdict |-> "conflict", reason |-> cond.reason]
             ELSE ScanV1(Tail(conds))

\* ScanV1beta1 that looks for Established=True only and skips NamesAccepted.
RECURSIVE ScanV1beta1_EstablishedOnly(_)
ScanV1beta1_EstablishedOnly(conds) ==
    IF conds = <<>> THEN [verdict |-> "none", reason |-> ""]
    ELSE LET cond == Head(conds)
         IN  IF cond.type = "Established" /\ cond.status = "True"
             THEN [verdict |-> "done", reason |-> ""]
             ELSE ScanV1beta1_EstablishedOnly(Tail(conds))

RECURSIVE ScanV1beta1(_)
ScanV1beta1(conds) ==
    IF conds = <<>> THEN [verdict |-> "none", reason |-> ""]
    ELSE LET cond == Head(conds)
         IN  IF cond.type = "Established" /\ cond.status = "True"
             THEN [verdict |-> "done", reason |-> ""]
             ELSE IF cond.type = "NamesAccepted" /\ cond.status = "False"
             THEN [verdict |-> "conflict", reason |-> cond.reason]
             ELSE ScanV1beta1(Tail(conds))

(* ------------------------------------------------------------------ state *)
VARIABLES
    v1Supported,   \* k8sversion.Capabilities().APIExtensionsV1CRD
    identityAllocationMode,  \* per agent: option.Config.IdentityAllocationMode
    cluster,       \* control plane: kind -> Absent or Stored(object)
    cluster0,      \* the control plane as it was before any agent ran
    task,          \* per (agent, kind): the state of createUpdateCRD
    group,         \* per agent: the errgroup of CreateCustomResourceDefinitions
    faults         \* server errors injected so far

vars == <<v1Supported, identityAllocationMode, cluster, cluster0, task, group, faults>>

NoCalls == [s \in Surfaces |->
             [Get |-> 0, Create |-> 0, Update |-> 0, Delete |-> 0]]

\* A task before g.Go starts it.
IdleTask ==
    [pc      |-> "off",      \* off, lookup, create, apply, update, wait, delete, done
     crd     |-> EmptyCRD,   \* clusterCRD of createUpdateCRD, crd of waitFor*CRD
     fresh   |-> FALSE,      \* the object refetched by the apply predicate is unmodified
     elapsed |-> 0,          \* ticks of the running poll loop
     pollErr |-> Nil,        \* error that ended the wait loop
     ret     |-> "none",     \* return statement taken
     err     |-> Nil,        \* error returned by createUpdateCRD
     calls   |-> NoCalls]    \* control-plane calls issued, per surface

\* An errgroup before CreateCustomResourceDefinitions is called; left is the
\* number of times the agent may still call it.
IdleGroup(n) == [state |-> "idle", err |-> Nil, result |-> Nil, left |-> n]

KindOf(t) == t[2]
ProcOf(t) == t[1]


(* ---------------------------------------------------------------- helpers *)
Called(t, api, op) == [task[t].calls EXCEPT ![api][op] = @ + 1]

\* errors.IsNotFound
IsNotFound(err) == err = ErrNotFound

\* IsAlreadyExists testing for the wrong status reason.
IsAlreadyExists_AsNotFound(err) == err = ErrNotFound

\* errors.IsAlreadyExists
IsAlreadyExists(err) == err = ErrAlreadyExists

\* A write to the object of kind k bumps its resourceVersion: every object of
\* that kind refetched earlier by an apply predicate is now out of date.
Touch(tk, k) ==
    [u \in Tasks |-> IF KindOf(u) = k THEN [tk[u] EXCEPT !.fresh = FALSE]
                     ELSE tk[u]]

\* errgroup: g.Go's wrapper keeps the first non-nil error of the group.
Record(g, e) == IF g.err = Nil /\ e # Nil THEN [g EXCEPT !.err = e] ELSE g

\* createUpdateCRD returns e through the return statement named r.
Return(t, rec, r, e) ==
    /\ task' = [task EXCEPT ![t] = [rec EXCEPT !.pc = "done", !.ret = r, !.err = e]]
    /\ group' = [group EXCEPT ![ProcOf(t)] = Record(@, e)]

Fault == /\ faults < MaxFaults
         /\ faults' = faults + 1

(* ------------------------------------------------------------------- Init *)
InitCommon ==
    /\ v1Supported \in BOOLEAN
    /\ identityAllocationMode = [p \in Procs |-> "kvstore"]
    /\ \E c \in [Kinds -> UNION {ClusterStates(k) : k \in Kinds}] :
          /\ \A k \in Kinds : c[k] \in ClusterStates(k)
          /\ cluster = [k \in AllKinds |-> IF k \in Kinds THEN c[k] ELSE Absent]
    /\ cluster0 = cluster
    /\ task = [t \in Tasks |-> IdleTask]
    /\ faults = 0

\* Every agent of Procs runs the reconciliation once, concurrently.
Init ==
    /\ InitCommon
    /\ group = [p \in Procs |-> IdleGroup(1)]

\* One agent runs alone, up to MaxRuns times: the other never starts.
InitSolo ==
    /\ InitCommon
    /\ group = [p \in Procs |-> IF p = "a1" THEN IdleGroup(MaxRuns)
                                ELSE IdleGroup(0)]

\* The control-plane states one agent's run over all kinds is started from.
StartStates(k) ==
    {Absent,
     Stored([name |-> CRDName(k), labels |-> <<"1.0.0">>, spec |-> "old",
             conds |-> CondsNone]),
     Stored([name |-> CRDName(k), labels |-> <<"2.0.0">>, spec |-> "base",
             conds |-> CondsAccepted])}

\* One agent runs once, in either allocation mode: the other never starts.
InitKinds ==
    /\ v1Supported \in BOOLEAN
    /\ identityAllocationMode \in [Procs -> IdentityAllocationModes]
    /\ identityAllocationMode["a2"] = "kvstore"
    /\ cluster \in [AllKinds -> UNION {StartStates(k) : k \in AllKinds}]
    /\ \A k \in AllKinds : cluster[k] \in StartStates(k)
    /\ cluster0 = cluster
    /\ task = [t \in Tasks |-> IdleTask]
    /\ faults = 0
    /\ group = [p \in Procs |-> IF p = "a1" THEN IdleGroup(1) ELSE IdleGroup(0)]

\* Conditions a CustomResourceDefinition status may list, in any order.
ScanConds ==
    {Cond("Established", "True", "InitialNamesAccepted"),
     Cond("Established", "False", "NotAccepted"),
     Cond("NamesAccepted", "True", "NoConflicts"),
     Cond("Terminating", "True", "InstanceDeletionInProgress")}
    \cup {Cond("NamesAccepted", "False", r) : r \in Reasons}

ScanLists == UNION {[1..n -> ScanConds] : n \in 0..MaxConds}

\* One agent runs once against an object with any list of conditions.
InitScan ==
    /\ v1Supported \in BOOLEAN
    /\ identityAllocationMode = [p \in Procs |-> "kvstore"]
    /\ \E c \in {Absent} \cup
               {Stored([name |-> CRDName("cnp"), labels |-> <<s>>,
                        spec |-> "base", conds |-> l]) :
                   s \in {"1.0.0", "2.0.0"}, l \in ScanLists} :
          cluster = [k \in AllKinds |-> IF k = "cnp" THEN c ELSE Absent]
    /\ cluster0 = cluster
    /\ task = [t \in Tasks |-> IdleTask]
    /\ faults = 0
    /\ group = [p \in Procs |-> IF p = "a1" THEN IdleGroup(1) ELSE IdleGroup(0)]

(* ----------------------------------------------------------- orchestrator *)
\* The identity kind launched whatever the allocation mode.
Launched_Always(p) == AllKinds

\* CreateCustomResourceDefinitions: the kinds a goroutine is started for.
Launched(p) ==
    Kinds \cup (IF identityAllocationMode[p] = IdentityAllocationModeCRD
                THEN {"identity"} ELSE {})

\* CreateCustomResourceDefinitions up to g.Wait: one goroutine per kind. An
\* agent that has returned may be started again and call it anew.
Go(p) ==
    /\ group[p].state \in {"idle", "returned"}
    /\ group[p].left > 0
    /\ group' = [group EXCEPT ![p] = [state |-> "running", err |-> Nil,
                                      result |-> Nil, left |-> @.left - 1]]
    /\ task' = [t \in Tasks |->
                  IF ProcOf(t) # p THEN task[t]
                  ELSE IF KindOf(t) \in Launched(p)
                  THEN [IdleTask EXCEPT !.pc = "lookup"]
                  ELSE IdleTask]
    /\ UNCHANGED <<v1Supported, identityAllocationMode, cluster, cluster0, faults>>

\* g.Wait returning as soon as one goroutine has returned.
Wait_NotAll(p) ==
    /\ group[p].state = "running"
    /\ \E k \in Launched(p) : task[<<p, k>>].pc = "done"
    /\ group' = [group EXCEPT ![p] = [@ EXCEPT !.state = "returned",
                                               !.result = group[p].err]]
    /\ UNCHANGED <<v1Supported, identityAllocationMode, cluster, cluster0, task, faults>>

\* g.Wait waiting for a goroutine of every kind, started or not.
Wait_ForAllKinds(p) ==
    /\ group[p].state = "running"
    /\ \A k \in AllKinds : task[<<p, k>>].pc = "done"
    /\ group' = [group EXCEPT ![p] = [@ EXCEPT !.state = "returned",
                                               !.result = group[p].err]]
    /\ UNCHANGED <<v1Supported, identityAllocationMode, cluster, cluster0, task, faults>>

\* g.Wait returns once every goroutine has returned, with the first error.
Wait(p) ==
    /\ group[p].state = "running"
    /\ \A k \in Launched(p) : task[<<p, k>>].pc = "done"
    /\ group' = [group EXCEPT ![p] = [@ EXCEPT !.state = "returned",
                                               !.result = group[p].err]]
    /\ UNCHANGED <<v1Supported, identityAllocationMode, cluster, cluster0, task, faults>>

(* ---------------------------------------------------------- control plane *)
\* The naming controller accepts or rejects the names of a new object.
ServerNames(k) ==
    /\ cluster[k].exists
    /\ cluster[k].obj.conds = CondsNone
    /\ \E c \in {CondsAccepted} \cup {CondsConflict(r) : r \in Reasons} :
          cluster' = [cluster EXCEPT ![k].obj.conds = c]
    /\ task' = Touch(task, k)
    /\ UNCHANGED <<v1Supported, identityAllocationMode, cluster0, group, faults>>

\* The establishing controller activates an object whose names were accepted.
ServerEstablish(k) ==
    /\ cluster[k].exists
    /\ cluster[k].obj.conds = CondsAccepted
    /\ cluster' = [cluster EXCEPT ![k].obj.conds = CondsEstablished]
    /\ task' = Touch(task, k)
    /\ UNCHANGED <<v1Supported, identityAllocationMode, cluster0, group, faults>>

(* ------------------------------------------------------------- converger *)
\* wait.Poll: the predicate answered (false, nil) at tick elapsed and the
\* timeout has passed.
TimedOut(elapsed) == elapsed >= TimeoutTicks

\* wait.Poll: the ticks at which the next attempt may run; ticks that fall
\* into a slow predicate evaluation are dropped.
LaterTicks(elapsed) == (elapsed + 1)..TimeoutTicks

(* ------------------------------------------------------------ modern path *)
\* createUpdateCRD issuing the compensating Delete in place of the update.
EnterV1_DeleteFirst(t, rec, clusterCRD) ==
    LET crd == constructV1CRD(KindOf(t))
        r   == [rec EXCEPT !.crd = clusterCRD, !.elapsed = 1]
    IN  IF crd.spec # "noschema" /\ needsUpdateV1(clusterCRD)
        THEN [r EXCEPT !.pc = "delete"]
        ELSE [r EXCEPT !.pc = "wait"]

\* updateV1CRD's guard, evaluated on the object createUpdateCRD holds.
EnterV1(t, rec, clusterCRD) ==
    LET crd == constructV1CRD(KindOf(t))
        r   == [rec EXCEPT !.crd = clusterCRD, !.elapsed = 1]
    IN  IF crd.spec # "noschema" /\ needsUpdateV1(clusterCRD)
        THEN [r EXCEPT !.pc = "apply"]
        ELSE [r EXCEPT !.pc = "wait"]

\* The lookup Get issued on the modern surface whatever the capability says.
LookupV1_AnyCapability(t) ==
    /\ task[t].pc = "lookup"
    /\ LET k   == KindOf(t)
           rec == [task[t] EXCEPT !.calls = Called(t, "v1", "Get")]
       IN  \/ /\ Fault
              /\ Return(t, rec, "err", ErrServer)
              /\ UNCHANGED cluster
           \/ /\ ~cluster[k].exists
              /\ IsNotFound(ErrNotFound)
              /\ task' = [task EXCEPT ![t] = [rec EXCEPT !.pc = "create"]]
              /\ UNCHANGED <<cluster, group, faults>>
           \/ /\ cluster[k].exists
              /\ task' = [task EXCEPT ![t] = EnterV1(t, rec, cluster[k].obj)]
              /\ UNCHANGED <<cluster, group, faults>>
    /\ UNCHANGED <<v1Supported, identityAllocationMode, cluster0>>

\* The lookup taking any failed Get for not-found and going on to the Create.
LookupV1_ErrorAsNotFound(t) ==
    /\ task[t].pc = "lookup"
    /\ v1Supported
    /\ LET k   == KindOf(t)
           rec == [task[t] EXCEPT !.calls = Called(t, "v1", "Get")]
       IN  \/ /\ Fault
              /\ task' = [task EXCEPT ![t] = [rec EXCEPT !.pc = "create"]]
              /\ UNCHANGED <<cluster, group>>
           \/ /\ ~cluster[k].exists
              /\ IsNotFound(ErrNotFound)
              /\ task' = [task EXCEPT ![t] = [rec EXCEPT !.pc = "create"]]
              /\ UNCHANGED <<cluster, group, faults>>
           \/ /\ cluster[k].exists
              /\ task' = [task EXCEPT ![t] = EnterV1(t, rec, cluster[k].obj)]
              /\ UNCHANGED <<cluster, group, faults>>
    /\ UNCHANGED <<v1Supported, identityAllocationMode, cluster0>>

\* createUpdateCRD: the lookup Get.
LookupV1(t) ==
    /\ task[t].pc = "lookup"
    /\ v1Supported
    /\ LET k   == KindOf(t)
           rec == [task[t] EXCEPT !.calls = Called(t, "v1", "Get")]
       IN  \/ /\ Fault
              /\ Return(t, rec, "err", ErrServer)
              /\ UNCHANGED cluster
           \/ /\ ~cluster[k].exists
              /\ IsNotFound(ErrNotFound)
              /\ task' = [task EXCEPT ![t] = [rec EXCEPT !.pc = "create"]]
              /\ UNCHANGED <<cluster, group, faults>>
           \/ /\ cluster[k].exists
              /\ task' = [task EXCEPT ![t] = EnterV1(t, rec, cluster[k].obj)]
              /\ UNCHANGED <<cluster, group, faults>>
    /\ UNCHANGED <<v1Supported, identityAllocationMode, cluster0>>

\* createUpdateCRD: Create after a not-found lookup.
CreateV1(t) ==
    /\ task[t].pc = "create"
    /\ v1Supported
    /\ LET k   == KindOf(t)
           crd == constructV1CRD(k)
           rec == [task[t] EXCEPT !.calls = Called(t, "v1", "Create")]
       IN  \/ /\ Fault
              /\ Return(t, rec, "err", ErrServer)
              /\ UNCHANGED cluster
           \/ /\ cluster[k].exists
              /\ IF IsAlreadyExists(ErrAlreadyExists)
                 THEN Return(t, rec, "raced", Nil)
                 ELSE Return(t, rec, "err", ErrAlreadyExists)
              /\ UNCHANGED <<cluster, faults>>
           \/ /\ ~cluster[k].exists
              /\ cluster' = [cluster EXCEPT ![k] = Stored(crd)]
              /\ task' = [Touch(task, k) EXCEPT ![t] = EnterV1(t, rec, crd)]
              /\ UNCHANGED <<group, faults>>
    /\ UNCHANGED <<v1Supported, identityAllocationMode, cluster0>>

\* The apply predicate going on to the Update without the staleness re-test.
ApplyGetV1_NoRetest(t) ==
    /\ task[t].pc = "apply"
    /\ v1Supported
    /\ LET k   == KindOf(t)
           rec == [task[t] EXCEPT !.calls = Called(t, "v1", "Get")]
       IN  \/ /\ Fault
              /\ Return(t, rec, "applyErr", ErrServer)
           \/ /\ ~cluster[k].exists
              /\ Return(t, rec, "applyErr", ErrNotFound)
              /\ UNCHANGED faults
           \/ /\ cluster[k].exists
              /\ task' = [task EXCEPT ![t] =
                    [rec EXCEPT !.pc = "update", !.fresh = TRUE]]
              /\ UNCHANGED <<group, faults>>
    /\ UNCHANGED <<v1Supported, identityAllocationMode, cluster, cluster0>>

\* updateV1CRD, apply predicate: the refetch and the staleness re-test.
ApplyGetV1(t) ==
    /\ task[t].pc = "apply"
    /\ v1Supported
    /\ LET k   == KindOf(t)
           rec == [task[t] EXCEPT !.calls = Called(t, "v1", "Get")]
       IN  \/ /\ Fault
              /\ Return(t, rec, "applyErr", ErrServer)
           \/ /\ ~cluster[k].exists
              /\ Return(t, rec, "applyErr", ErrNotFound)
              /\ UNCHANGED faults
           \/ /\ cluster[k].exists
              /\ task' = [task EXCEPT ![t] =
                    IF needsUpdateV1(cluster[k].obj)
                    THEN [rec EXCEPT !.pc = "update", !.fresh = TRUE]
                    ELSE [rec EXCEPT !.pc = "wait", !.elapsed = 1]]
              /\ UNCHANGED <<group, faults>>
    /\ UNCHANGED <<v1Supported, identityAllocationMode, cluster, cluster0>>

\* OverwriteV1 without the assignment to ObjectMeta.Labels.
OverwriteV1_SpecOnly(clusterCRD, crd) ==
    [clusterCRD EXCEPT !.spec = crd.spec]

\* updateV1CRD, apply predicate: labels and spec of the refetched object are
\* overwritten with the baseline's.
OverwriteV1(clusterCRD, crd) ==
    [clusterCRD EXCEPT !.labels = crd.labels, !.spec = crd.spec]

\* updateV1CRD, apply predicate: the Update and the predicate's result.
ApplyUpdateV1(t) ==
    /\ task[t].pc = "update"
    /\ v1Supported
    /\ LET k   == KindOf(t)
           crd == constructV1CRD(k)
           rec == [task[t] EXCEPT !.calls = Called(t, "v1", "Update"), !.fresh = FALSE]
       IN  \/ /\ Fault
              /\ Return(t, rec, "applyErr", ErrServer)
              /\ UNCHANGED cluster
           \/ /\ ~cluster[k].exists
              /\ Return(t, rec, "applyErr", ErrNotFound)
              /\ UNCHANGED <<cluster, faults>>
           \/ /\ cluster[k].exists
              /\ ~task[t].fresh
              /\ Return(t, rec, "applyErr", ErrConflict)
              /\ UNCHANGED <<cluster, faults>>
           \/ /\ cluster[k].exists
              /\ task[t].fresh
              /\ cluster' = [cluster EXCEPT ![k].obj = OverwriteV1(@, crd)]
              /\ task' = [Touch(task, k) EXCEPT ![t] =
                              [rec EXCEPT !.pc = "wait", !.elapsed = 1]]
              /\ UNCHANGED <<group, faults>>
    /\ UNCHANGED <<v1Supported, identityAllocationMode, cluster0>>

\* WaitFailedV1 returning the wrapped error without the Delete.
WaitFailedV1_NoDelete(rec, err) ==
    [rec EXCEPT !.pc = "done", !.ret = "waitErr", !.pollErr = err,
                !.err = Errorf("error occurred waiting for CRD", err)]

\* WaitFailedV1 that deletes after a timeout or a failed Get only, not after
\* a naming conflict.
WaitFailedV1_KeepOnConflict(rec, err) ==
    IF err \in {ErrServer, ErrNotFound, ErrWaitTimeout}
    THEN [rec EXCEPT !.pc = "delete", !.pollErr = err]
    ELSE [rec EXCEPT !.pc = "done", !.ret = "waitErr", !.pollErr = err,
                     !.err = Errorf("error occurred waiting for CRD", err)]

\* waitForV1CRD: Poll returned err, the compensating Delete comes next.
WaitFailedV1(rec, err) == [rec EXCEPT !.pc = "delete", !.pollErr = err]

\* waitForV1CRD: one evaluation of the ready predicate.
WaitPollV1(t) ==
    /\ task[t].pc = "wait"
    /\ v1Supported
    /\ LET k    == KindOf(t)
           scan == ScanV1(task[t].crd.conds)
           rec  == [task[t] EXCEPT !.calls = Called(t, "v1", "Get")]
       IN  CASE scan.verdict = "done" ->
                  /\ Return(t, task[t], "ok", Nil)
                  /\ UNCHANGED faults
             [] scan.verdict = "conflict" ->
                  /\ task' = [task EXCEPT ![t] =
                                  WaitFailedV1(task[t], <<scan.reason>>)]
                  /\ UNCHANGED <<group, faults>>
             [] OTHER ->
                  \/ /\ Fault
                     /\ task' = [task EXCEPT ![t] =
                           WaitFailedV1([rec EXCEPT !.crd = EmptyCRD], ErrServer)]
                     /\ UNCHANGED group
                  \/ /\ ~cluster[k].exists
                     /\ task' = [task EXCEPT ![t] =
                           WaitFailedV1([rec EXCEPT !.crd = EmptyCRD], ErrNotFound)]
                     /\ UNCHANGED <<group, faults>>
                  \/ /\ cluster[k].exists
                     /\ TimedOut(task[t].elapsed)
                     /\ task' = [task EXCEPT ![t] =
                           WaitFailedV1([rec EXCEPT !.crd = cluster[k].obj],
                                        ErrWaitTimeout)]
                     /\ UNCHANGED <<group, faults>>
                  \/ /\ cluster[k].exists
                     /\ ~TimedOut(task[t].elapsed)
                     /\ \E n \in LaterTicks(task[t].elapsed) :
                           task' = [task EXCEPT ![t] =
                              [rec EXCEPT !.crd = cluster[k].obj, !.elapsed = n]]
                     /\ UNCHANGED <<group, faults>>
    /\ UNCHANGED <<v1Supported, identityAllocationMode, cluster, cluster0>>

\* waitForV1CRD: the compensating Delete and the returned error.
DeleteV1(t) ==
    /\ task[t].pc = "delete"
    /\ v1Supported
    /\ LET k   == KindOf(t)
           rec == [task[t] EXCEPT !.calls = Called(t, "v1", "Delete")]
       IN  \/ /\ Fault
              /\ Return(t, rec, "waitErr", Errorf("unable to delete CRD", ErrServer))
              /\ UNCHANGED cluster
           \/ /\ task[t].crd.name # CRDName(k)
              /\ Return(t, rec, "waitErr", Errorf("unable to delete CRD", ErrInvalidName))
              /\ UNCHANGED <<cluster, faults>>
           \/ /\ task[t].crd.name = CRDName(k)
              /\ ~cluster[k].exists
              /\ Return(t, rec, "waitErr", Errorf("unable to delete CRD", ErrNotFound))
              /\ UNCHANGED <<cluster, faults>>
           \/ /\ task[t].crd.name = CRDName(k)
              /\ cluster[k].exists
              /\ cluster' = [cluster EXCEPT ![k] = Absent]
              /\ task' = [Touch(task, k) EXCEPT ![t] =
                    [rec EXCEPT !.pc = "done", !.ret = "waitErr",
                       !.err = Errorf("error occurred waiting for CRD", task[t].pollErr)]]
              /\ group' = [group EXCEPT ![ProcOf(t)] =
                    Record(@, Errorf("error occurred waiting for CRD", task[t].pollErr))]
              /\ UNCHANGED faults
    /\ UNCHANGED <<v1Supported, identityAllocationMode, cluster0>>

(* ------------------------------------------------------------ legacy path *)
\* updateV1beta1CRD's guard, evaluated on the object createUpdateV1beta1CRD holds.
EnterV1beta1(t, rec, clusterCRD) ==
    LET crd == convertToV1Beta1CRD(constructV1CRD(KindOf(t)))
        r   == [rec EXCEPT !.crd = clusterCRD, !.elapsed = 1]
    IN  IF crd.spec # "noschema" /\ needsUpdateV1beta1(clusterCRD)
        THEN [r EXCEPT !.pc = "apply"]
        ELSE [r EXCEPT !.pc = "wait"]

\* createUpdateV1beta1CRD: the lookup Get.
LookupV1beta1(t) ==
    /\ task[t].pc = "lookup"
    /\ ~v1Supported
    /\ LET k   == KindOf(t)
           rec == [task[t] EXCEPT !.calls = Called(t, "v1beta1", "Get")]
       IN  \/ /\ Fault
              /\ Return(t, rec, "err", ErrServer)
              /\ UNCHANGED cluster
           \/ /\ ~cluster[k].exists
              /\ IsNotFound(ErrNotFound)
              /\ task' = [task EXCEPT ![t] = [rec EXCEPT !.pc = "create"]]
              /\ UNCHANGED <<cluster, group, faults>>
           \/ /\ cluster[k].exists
              /\ task' = [task EXCEPT ![t] = EnterV1beta1(t, rec, cluster[k].obj)]
              /\ UNCHANGED <<cluster, group, faults>>
    /\ UNCHANGED <<v1Supported, identityAllocationMode, cluster0>>

\* createUpdateV1beta1CRD: Create after a not-found lookup.
CreateV1beta1(t) ==
    /\ task[t].pc = "create"
    /\ ~v1Supported
    /\ LET k   == KindOf(t)
           crd == convertToV1Beta1CRD(constructV1CRD(k))
           rec == [task[t] EXCEPT !.calls = Called(t, "v1beta1", "Create")]
       IN  \/ /\ Fault
              /\ Return(t, rec, "err", ErrServer)
              /\ UNCHANGED cluster
           \/ /\ cluster[k].exists
              /\ IF IsAlreadyExists(ErrAlreadyExists)
                 THEN Return(t, rec, "raced", Nil)
                 ELSE Return(t, rec, "err", ErrAlreadyExists)
              /\ UNCHANGED <<cluster, faults>>
           \/ /\ ~cluster[k].exists
              /\ cluster' = [cluster EXCEPT ![k] = Stored(crd)]
              /\ task' = [Touch(task, k) EXCEPT ![t] = EnterV1beta1(t, rec, crd)]
              /\ UNCHANGED <<group, faults>>
    /\ UNCHANGED <<v1Supported, identityAllocationMode, cluster0>>

\* updateV1beta1CRD, apply predicate: the refetch and the staleness re-test.
ApplyGetV1beta1(t) ==
    /\ task[t].pc = "apply"
    /\ ~v1Supported
    /\ LET k   == KindOf(t)
           rec == [task[t] EXCEPT !.calls = Called(t, "v1beta1", "Get")]
       IN  \/ /\ Fault
              /\ Return(t, rec, "applyErr", ErrServer)
           \/ /\ ~cluster[k].exists
              /\ Return(t, rec, "applyErr", ErrNotFound)
              /\ UNCHANGED faults
           \/ /\ cluster[k].exists
              /\ task' = [task EXCEPT ![t] =
                    IF needsUpdateV1beta1(cluster[k].obj)
                    THEN [rec EXCEPT !.pc = "update", !.fresh = TRUE]
                    ELSE [rec EXCEPT !.pc = "wait", !.elapsed = 1]]
              /\ UNCHANGED <<group, faults>>
    /\ UNCHANGED <<v1Supported, identityAllocationMode, cluster, cluster0>>

\* updateV1beta1CRD, apply predicate: labels and spec of the refetched object are
\* overwritten with the baseline's.
OverwriteV1beta1(clusterCRD, crd) ==
    [clusterCRD EXCEPT !.labels = crd.labels, !.spec = crd.spec]

\* updateV1beta1CRD, apply predicate: the Update and the predicate's result.
ApplyUpdateV1beta1(t) ==
    /\ task[t].pc = "update"
    /\ ~v1Supported
    /\ LET k   == KindOf(t)
           crd == convertToV1Beta1CRD(constructV1CRD(k))
           rec == [task[t] EXCEPT !.calls = Called(t, "v1beta1", "Update"), !.fresh = FALSE]
       IN  \/ /\ Fault
              /\ Return(t, rec, "applyErr", ErrServer)
              /\ UNCHANGED cluster
           \/ /\ ~cluster[k].exists
              /\ Return(t, rec, "applyErr", ErrNotFound)
              /\ UNCHANGED <<cluster, faults>>
           \/ /\ cluster[k].exists
              /\ ~task[t].fresh
              /\ Return(t, rec, "applyErr", ErrConflict)
              /\ UNCHANGED <<cluster, faults>>
           \/ /\ cluster[k].exists
              /\ task[t].fresh
              /\ cluster' = [cluster EXCEPT ![k].obj = OverwriteV1beta1(@, crd)]
              /\ task' = [Touch(task, k) EXCEPT ![t] =
                              [rec EXCEPT !.pc = "wait", !.elapsed = 1]]
              /\ UNCHANGED <<group, faults>>
    /\ UNCHANGED <<v1Supported, identityAllocationMode, cluster0>>

\* waitForV1beta1CRD: Poll returned err, the compensating Delete comes next.
WaitFailedV1beta1(rec, err) == [rec EXCEPT !.pc = "delete", !.pollErr = err]

\* waitForV1beta1CRD: one evaluation of the ready predicate.
WaitPollV1beta1(t) ==
    /\ task[t].pc = "wait"
    /\ ~v1Supported
    /\ LET k    == KindOf(t)
           scan == ScanV1beta1(task[t].crd.conds)
           rec  == [task[t] EXCEPT !.calls = Called(t, "v1beta1", "Get")]
       IN  CASE scan.verdict = "done" ->
                  /\ Return(t, task[t], "ok", Nil)
                  /\ UNCHANGED faults
             [] scan.verdict = "conflict" ->
                  /\ task' = [task EXCEPT ![t] =
                                  WaitFailedV1beta1(task[t], <<scan.reason>>)]
                  /\ UNCHANGED <<group, faults>>
             [] OTHER ->
                  \/ /\ Fault
                     /\ task' = [task EXCEPT ![t] =
                           WaitFailedV1beta1([rec EXCEPT !.crd = EmptyCRD], ErrServer)]
                     /\ UNCHANGED group
                  \/ /\ ~cluster[k].exists
                     /\ task' = [task EXCEPT ![t] =
                           WaitFailedV1beta1([rec EXCEPT !.crd = EmptyCRD], ErrNotFound)]
                     /\ UNCHANGED <<group, faults>>
                  \/ /\ cluster[k].exists
                     /\ TimedOut(task[t].elapsed)
                     /\ task' = [task EXCEPT ![t] =
                           WaitFailedV1beta1([rec EXCEPT !.crd = cluster[k].obj],
                                        ErrWaitTimeout)]
                     /\ UNCHANGED <<group, faults>>
                  \/ /\ cluster[k].exists
                     /\ ~TimedOut(task[t].elapsed)
                     /\ \E n \in LaterTicks(task[t].elapsed) :
                           task' = [task EXCEPT ![t] =
                              [rec EXCEPT !.crd = cluster[k].obj, !.elapsed = n]]
                     /\ UNCHANGED <<group, faults>>
    /\ UNCHANGED <<v1Supported, identityAllocationMode, cluster, cluster0>>

\* waitForV1beta1CRD: the compensating Delete and the returned error.
DeleteV1beta1(t) ==
    /\ task[t].pc = "delete"
    /\ ~v1Supported
    /\ LET k   == KindOf(t)
           rec == [task[t] EXCEPT !.calls = Called(t, "v1beta1", "Delete")]
       IN  \/ /\ Fault
              /\ Return(t, rec, "waitErr", Errorf("unable to delete CRD", ErrServer))
              /\ UNCHANGED cluster
           \/ /\ task[t].crd.name # CRDName(k)
              /\ Return(t, rec, "waitErr", Errorf("unable to delete CRD", ErrInvalidName))
              /\ UNCHANGED <<cluster, faults>>
           \/ /\ task[t].crd.name = CRDName(k)
              /\ ~cluster[k].exists
              /\ Return(t, rec, "waitErr", Errorf("unable to delete CRD", ErrNotFound))
              /\ UNCHANGED <<cluster, faults>>
           \/ /\ task[t].crd.name = CRDName(k)
              /\ cluster[k].exists
              /\ cluster' = [cluster EXCEPT ![k] = Absent]
              /\ task' = [Touch(task, k) EXCEPT ![t] =
                    [rec EXCEPT !.pc = "done", !.ret = "waitErr",
                       !.err = Errorf("error occurred waiting for CRD", task[t].pollErr)]]
              /\ group' = [group EXCEPT ![ProcOf(t)] =
                    Record(@, Errorf("error occurred waiting for CRD", task[t].pollErr))]
              /\ UNCHANGED faults
    /\ UNCHANGED <<v1Supported, identityAllocationMode, cluster0>>

(* ------------------------------------------------------------------- Next *)
Next ==
    \/ \E p \in Procs : Go(p)
    \/ \E p \in Procs : Wait(p)
    \/ \E k \in AllKinds : ServerNames(k)
    \/ \E k \in AllKinds : ServerEstablish(k)
    \/ \E t \in Tasks : LookupV1(t)
    \/ \E t \in Tasks : CreateV1(t)
    \/ \E t \in Tasks : ApplyGetV1(t)
    \/ \E t \in Tasks : ApplyUpdateV1(t)
    \/ \E t \in Tasks : WaitPollV1(t)
    \/ \E t \in Tasks : DeleteV1(t)
    \/ \E t \in Tasks : LookupV1beta1(t)
    \/ \E t \in Tasks : CreateV1beta1(t)
    \/ \E t \in Tasks : ApplyGetV1beta1(t)
    \/ \E t \in Tasks : ApplyUpdateV1beta1(t)
    \/ \E t \in Tasks : WaitPollV1beta1(t)
    \/ \E t \in Tasks : DeleteV1beta1(t)

\* Two agents reconcile concurrently.
Spec == Init /\ [][Next]_vars

\* One agent reconciles alone against the asynchronous control plane.
SpecSolo == InitSolo /\ [][Next]_vars

\* One agent reconciles every kind its allocation mode asks for.
SpecKinds == InitKinds /\ [][Next]_vars

\* One agent reconciles an object whose conditions come in any order.
SpecScan == InitScan /\ [][Next]_vars

\* The next control-plane call of task t is issued and answered.
TaskStep(t) ==
    \/ LookupV1(t) \/ CreateV1(t) \/ ApplyGetV1(t)
    \/ ApplyUpdateV1(t) \/ WaitPollV1(t) \/ DeleteV1(t)
    \/ LookupV1beta1(t) \/ CreateV1beta1(t) \/ ApplyGetV1beta1(t)
    \/ ApplyUpdateV1beta1(t) \/ WaitPollV1beta1(t) \/ DeleteV1beta1(t)

\* Every goroutine is scheduled and every call it issues returns; g.Wait
\* returns once it can. Nothing is asked of the control plane's controllers
\* or of an agent that has not yet called CreateCustomResourceDefinitions.
Fairness ==
    /\ \A t \in Tasks : WF_vars(TaskStep(t))
    /\ \A p \in Procs : WF_vars(Wait(p))

\* One agent reconciles every kind of its mode, every call being answered.
SpecKindsLive == InitKinds /\ [][Next]_vars /\ Fairness

(* ----------------------------------------------------------- observations *)
\* Calls of one kind issued by task t in its current run, on both surfaces.
Issued(t, op) == task[t].calls["v1"][op] + task[t].calls["v1beta1"][op]

\* The stored object lists a condition of this type and status.
HasCond(o, type, status) ==
    \E i \in 1..Len(o.conds) : o.conds[i].type = type /\ o.conds[i].status = status

\* The control plane holds an Established=True object of kind k.
EstablishedIn(c, k) == c[k].exists /\ HasCond(c[k].obj, "Established", "True")

\* The label of the stored object parses to a version at or above baseline.
LabelCurrent(o) ==
    \E s \in {"2.0.0", "3.0.0"} : o.labels = <<s>>

\* Errors with which the ready predicate reports a naming conflict.
ConflictErrs == {<<r>> : r \in Reasons}

(* ----------------------------------------------------------------- claims *)
\* C1: whenever CreateCustomResourceDefinitions returns no error in an agent,
\* an object with the qualified name of every configured kind exists in the
\* control plane at that moment, whatever the other agents do.
C1_ExistsOnSuccess ==
    [][\A p \in Procs :
         (group[p].state = "running" /\ group'[p].state = "returned"
            /\ group'[p].result = Nil)
         => \A k \in Kinds : cluster'[k].exists /\ cluster'[k].obj.name = CRDName(k)]_vars

\* C2: whenever a per-kind task returns success, the object of its kind has a
\* schema-version label at or above baseline and an Established=True
\* condition, also when Create reported that the object already exists.
C2_CurrentAndEstablishedOnSuccess ==
    [][\A t \in Tasks :
         (task[t].pc # "done" /\ task'[t].pc = "done" /\ task'[t].err = Nil)
         => /\ EstablishedIn(cluster', KindOf(t))
            /\ LabelCurrent(cluster'[KindOf(t)].obj)]_vars

\* C3: a Delete is issued only by a task whose wait loop ended because it
\* observed NamesAccepted=False or because the timeout elapsed, and never on
\* an object that is Established=True when the call is made.
C3_DeleteOnlyAfterEstablishmentFailure ==
    [][\A t \in Tasks :
         Issued(t, "Delete")' > Issued(t, "Delete")
         => /\ task[t].pc = "delete"
            /\ task[t].pollErr \in ConflictErrs \cup {ErrWaitTimeout}
            /\ ~EstablishedIn(cluster, KindOf(t))]_vars

\* The object of kind k in control plane c is installed and current: label at
\* or above baseline, a validation schema, Established=True.
Installed(c, k) ==
    /\ c[k].exists
    /\ LabelCurrent(c[k].obj)
    /\ c[k].obj.spec # "noschema"
    /\ HasCond(c[k].obj, "Established", "True")

\* C4: on a control plane where every configured kind is installed and
\* current, a run issues no Create, Update or Delete and leaves the control
\* plane as it was; a task returns success after its one lookup Get (or the
\* error of that Get, if the control plane failed to answer it), in the first
\* run and in every later one.
C4_Idempotent ==
    (\A k \in Kinds : Installed(cluster0, k))
    => /\ cluster = cluster0
       /\ \A t \in Tasks :
             /\ Issued(t, "Create") = 0
             /\ Issued(t, "Update") = 0
             /\ Issued(t, "Delete") = 0
             /\ Issued(t, "Get") <= 1
             /\ task[t].pc \in {"off", "lookup", "wait", "done"}
             /\ task[t].pc = "done"
                  => \/ task[t].err = Nil /\ task[t].ret = "ok"
                     \/ task[t].err = ErrServer /\ task[t].ret = "err"
       /\ \A p \in Procs :
             group[p].state = "returned" /\ group[p].result # Nil
                => \E k \in Kinds : task[<<p, k>>].err = ErrServer

\* C4 witness: the second run on an installed control plane returned success.
C4_Witness ==
    /\ \A k \in Kinds : Installed(cluster0, k)
    /\ group["a1"].state = "returned"
    /\ group["a1"].left <= MaxRuns - 2
    /\ group["a1"].result = Nil
    /\ \A k \in Kinds : Issued(<<"a1", k>>, "Get") = 1

\* The label of the object is absent, unparsable or older than baseline.
StaleLabel(o) == o.labels \in {<<>>, <<"junk">>, <<"1.0.0">>}

\* C5: if the object of a kind exists with a label that is absent, unparsable
\* or older than baseline, then once a run has returned success the object's
\* labels equal the baseline labels and its spec equals the baseline spec.
C5_ConvergesToBaseline ==
    \A p \in Procs : \A k \in Kinds :
       (/\ cluster0[k].exists
        /\ StaleLabel(cluster0[k].obj)
        /\ group[p].state = "returned"
        /\ group[p].result = Nil)
       => /\ cluster[k].exists
          /\ cluster[k].obj.labels = <<CustomResourceDefinitionSchemaVersion>>
          /\ cluster[k].obj.spec = "base"

\* C5 witness: a run that found a stale object, updated it and returned success.
C5_Witness ==
    \E k \in Kinds :
       /\ cluster0[k].exists
       /\ StaleLabel(cluster0[k].obj)
       /\ cluster0[k].obj.spec = "old"
       /\ group["a1"].state = "returned"
       /\ group["a1"].result = Nil
       /\ Issued(<<"a1", k>>, "Update") = 1

\* Task t issues a control-plane call in this step.
Calls(t) == task'[t].calls # task[t].calls

\* C6: if the lookup reported not-found and the following Create reports that
\* the object already exists, the task returns success at once, having issued
\* one Get and one Create and no Update or Delete, and issues no call after.
C6_RaceLoserReturnsSuccess ==
    [][\A t \in Tasks :
         /\ (/\ task[t].pc = "create"
             /\ Calls(t)
             /\ cluster[KindOf(t)].exists
             /\ faults' = faults)
            => /\ task'[t].pc = "done"
               /\ task'[t].err = Nil
               /\ Issued(t, "Get")' = 1
               /\ Issued(t, "Create")' = 1
               /\ Issued(t, "Update")' = 0
               /\ Issued(t, "Delete")' = 0
         /\ task[t].pc = "done" /\ task'[t].pc = "done" => ~Calls(t)]_vars

\* C6 witness: a task that lost the creation race has returned.
C6_Witness ==
    \E t \in Tasks :
       /\ task[t].pc = "done"
       /\ task[t].ret = "raced"
       /\ Issued(t, "Create") = 1
       /\ cluster[KindOf(t)].exists

\* C7: when Update inside the apply loop returns a write conflict, the apply
\* predicate reports "not yet succeeded" and the loop runs another iteration
\* with a fresh Get; the task does not fail because of the conflict.
C7_ConflictIsRetried ==
    [][\A t \in Tasks :
         (/\ task[t].pc = "update"
          /\ Calls(t)
          /\ cluster[KindOf(t)].exists
          /\ ~task[t].fresh
          /\ faults' = faults)
         => /\ task'[t].pc = "apply"
            /\ task'[t].err = Nil]_vars

\* C8 as claimed: a task that fails in the apply loop or in the wait loop has
\* issued a Delete before it returns its error.
C8_DeleteAfterApplyOrWaitFailure ==
    \A t \in Tasks :
       task[t].pc = "done" /\ task[t].ret \in {"applyErr", "waitErr"}
          => Issued(t, "Delete") >= 1

\* C8 as amended: a task that fails in the wait loop has issued one Delete
\* before it returns its error; a task that fails in the apply loop returns
\* its error without issuing a Delete.
C8_DeleteAfterWaitFailureOnly ==
    \A t \in Tasks :
       task[t].pc = "done"
          => /\ task[t].ret = "waitErr" => Issued(t, "Delete") = 1
             /\ task[t].ret = "applyErr" => Issued(t, "Delete") = 0

\* C8 witness: one task failed in the wait loop by timeout and deleted, while
\* another failed in the apply loop and did not.
C8_Witness ==
    \E t, u \in Tasks :
       /\ task[t].pc = "done" /\ task[t].ret = "waitErr"
       /\ task[t].pollErr = ErrWaitTimeout
       /\ Issued(t, "Delete") = 1
       /\ task[u].pc = "done" /\ task[u].ret = "applyErr"
       /\ Issued(u, "Delete") = 0

\* The object the ready predicate is about to examine lists NamesAccepted=False
\* before any Established=True.
ConflictFirst(conds) ==
    \E i \in 1..Len(conds) :
       /\ conds[i].type = "NamesAccepted" /\ conds[i].status = "False"
       /\ \A j \in 1..(i - 1) :
             ~(conds[j].type = "Established" /\ conds[j].status = "True")

\* The reason of the first NamesAccepted=False condition.
ConflictReason(conds) ==
    conds[CHOOSE i \in 1..Len(conds) :
             /\ conds[i].type = "NamesAccepted" /\ conds[i].status = "False"
             /\ \A j \in 1..(i - 1) :
                   ~(conds[j].type = "NamesAccepted" /\ conds[j].status = "False")].reason

\* C9: when the ready predicate observes NamesAccepted=False, the wait loop
\* ends at that attempt with an error carrying the condition's reason: no Get
\* is issued, no further attempt runs and no tick of the budget is waited out.
C9_ConflictFailsFast ==
    [][\A t \in Tasks :
         (/\ task[t].pc = "wait"
          /\ ConflictFirst(task[t].crd.conds)
          /\ task'[t] # [task[t] EXCEPT !.fresh = FALSE])
         => /\ task'[t].pc = "delete"
            /\ task'[t].pollErr = <<ConflictReason(task[t].crd.conds)>>
            /\ ~Calls(t)
            /\ task'[t].elapsed = task[t].elapsed]_vars

\* C9 witness: a wait loop ended by a naming conflict with budget left.
C9_Witness ==
    \E t \in Tasks :
       /\ task[t].pc = "delete"
       /\ task[t].pollErr \in ConflictErrs
       /\ task[t].elapsed < TimeoutTicks
       /\ Issued(t, "Delete") = 0

\* C10: a task whose wait loop failed because NamesAccepted=False was
\* observed issues exactly one Delete before it returns.
C10_OneDeleteAfterConflict ==
    \A t \in Tasks :
       task[t].pollErr \in ConflictErrs
          => \/ task[t].pc = "delete" /\ Issued(t, "Delete") = 0
             \/ task[t].pc = "done" /\ task[t].ret = "waitErr"
                   /\ Issued(t, "Delete") = 1

\* C10 witness: a task has returned after a naming conflict and its Delete.
C10_Witness ==
    \E t \in Tasks :
       /\ task[t].pc = "done"
       /\ task[t].pollErr \in ConflictErrs
       /\ Issued(t, "Delete") = 1
       /\ ~cluster[KindOf(t)].exists

\* The condition list shows neither Established=True nor NamesAccepted=False.
NotReady(conds) ==
    \A i \in 1..Len(conds) :
       /\ ~(conds[i].type = "Established" /\ conds[i].status = "True")
       /\ ~(conds[i].type = "NamesAccepted" /\ conds[i].status = "False")

\* Task t takes a step of its own (a write by another task only clears fresh).
Steps(t) ==
    /\ task'[t] # task[t]
    /\ task'[t] # [task[t] EXCEPT !.fresh = FALSE]

\* C11: an evaluation of the ready predicate that finds the object not yet
\* ready never ends the wait loop with success; if its Get is answered, the
\* loop goes on to a later tick while budget is left and ends with the timeout
\* error only at the last tick of the budget, never earlier.
C11_TimeoutOnlyAfterBudget ==
    /\ [][\A t \in Tasks :
            (task[t].pc = "wait" /\ NotReady(task[t].crd.conds) /\ Steps(t))
            => /\ task'[t].pc \in {"wait", "delete"}
               /\ task'[t].ret = "none"
               /\ (faults' = faults /\ cluster[KindOf(t)].exists)
                     => IF task[t].elapsed < TimeoutTicks
                        THEN /\ task'[t].pc = "wait"
                             /\ task'[t].elapsed > task[t].elapsed
                             /\ task'[t].pollErr = Nil
                        ELSE /\ task'[t].pc = "delete"
                             /\ task'[t].pollErr = ErrWaitTimeout]_vars
    /\ [](\A t \in Tasks :
            task[t].pollErr = ErrWaitTimeout => task[t].elapsed = TimeoutTicks)

\* C11 witness: a wait loop ended by the timeout after the whole budget, every
\* object it fetched being not yet ready.
C11_Witness ==
    \E t \in Tasks :
       /\ task[t].pc = "delete"
       /\ task[t].pollErr = ErrWaitTimeout
       /\ task[t].elapsed = TimeoutTicks
       /\ NotReady(task[t].crd.conds)
       /\ task[t].crd.conds = CondsAccepted

Ops == {"Get", "Create", "Update", "Delete"}

\* C12: when the capability report says the modern surface is not supported,
\* no task issues a Get, Create, Update or Delete on the modern surface; every
\* call it issues is counted on the legacy surface.
C12_LegacyOnlyWhenUnsupported ==
    ~v1Supported =>
        \A t \in Tasks : \A op \in Ops : task[t].calls["v1"][op] = 0

\* C12 witness: without the modern surface a task has returned after a Get, an
\* Update and a Delete, all of them on the legacy surface.
C12_Witness ==
    /\ ~v1Supported
    /\ \E t \in Tasks :
          /\ task[t].pc = "done"
          /\ task[t].calls["v1beta1"]["Get"] >= 2
          /\ task[t].calls["v1beta1"]["Update"] = 1
          /\ task[t].calls["v1beta1"]["Delete"] = 1
    /\ \E t \in Tasks : task[t].calls["v1beta1"]["Create"] = 1

\* The tasks of agent p that have returned an error.
Failed(p) ==
    {k \in Launched(p) : task[<<p, k>>].pc = "done" /\ task[<<p, k>>].err # Nil}

\* C13: CreateCustomResourceDefinitions returns only when every task it
\* started has returned; it returns nil exactly when every task returned nil,
\* and otherwise the error of the task that failed first, whatever the other
\* tasks return after it.
C13_ReturnsFirstError ==
    /\ [](\A p \in Procs :
            group[p].state = "returned"
            => /\ \A k \in Launched(p) : task[<<p, k>>].pc = "done"
               /\ (group[p].result = Nil <=> Failed(p) = {}))
    /\ [][\A p \in Procs :
            /\ (group[p].state = "running" /\ group'[p].state = "running")
               => \A k \in Launched(p) :
                    (/\ task[<<p, k>>].pc # "done"
                     /\ task'[<<p, k>>].pc = "done"
                     /\ task'[<<p, k>>].err # Nil)
                    => group'[p].err = IF Failed(p) = {}
                                       THEN task'[<<p, k>>].err
                                       ELSE group[p].err
            /\ (group[p].state = "running" /\ group'[p].state = "returned")
               => group'[p].result = group[p].err
            /\ (group[p].state = "returned" /\ group'[p].state = "returned")
               => group'[p].result = group[p].result]_vars

\* C13 witness: both tasks of a run failed with different errors, and the run
\* returned the error of the identity task, which failed first.
C13_Witness ==
    /\ group["a1"].state = "returned"
    /\ Failed("a1") = AllKinds
    /\ task[<<"a1", "cnp">>].err # task[<<"a1", "identity">>].err
    /\ group["a1"].result = task[<<"a1", "identity">>].err

\* The error e carries the message parts of the error inner.
Reports(e, inner) ==
    \E i \in 1..Len(e) :
       /\ i + Len(inner) - 1 <= Len(e)
       /\ SubSeq(e, i, i + Len(inner) - 1) = inner

\* The compensating Delete of a returned task failed.
DeleteFailed(t) ==
    /\ task[t].pc = "done"
    /\ Issued(t, "Delete") = 1
    /\ task[t].err # Nil
    /\ task[t].err[1] = "unable to delete CRD"

\* C14: when the wait loop failed and the compensating Delete failed too, the
\* error the task returns reports the deletion failure first and the original
\* failure of the wait loop after it.
C14_ErrorReportsWaitAndDeleteFailure ==
    \A t \in Tasks :
       DeleteFailed(t)
       => /\ task[t].pollErr # Nil
          /\ Len(task[t].err) > 1
          /\ Reports(Tail(task[t].err), task[t].pollErr)

\* The stored object has a schema and a label at or above baseline.
Current(c, k) ==
    /\ c[k].exists
    /\ c[k].obj.spec # "noschema"
    /\ LabelCurrent(c[k].obj)

\* The Update issued by task t in this step was accepted by the control plane.
Updated(t) ==
    /\ task[t].pc = "update"
    /\ task'[t].pc = "wait"

\* C15: with reconcilers running concurrently, no Update is accepted for an
\* object that, when the Update is written, has a schema and a label at or above
\* baseline; a step of the apply loop leaves the labels and the spec of such
\* an object as they are.
C15_NoRewriteOfCurrent ==
    [][\A t \in Tasks :
         (/\ Current(cluster, KindOf(t))
          /\ task[t].pc \in {"apply", "update"}
          /\ Steps(t))
         => /\ ~Updated(t)
            /\ cluster'[KindOf(t)] = cluster[KindOf(t)]]_vars

\* C15 witness: a task that found the object stale at its lookup refetched it
\* after another agent's Update had made it current, and went on to the wait
\* loop without an Update of its own.
C15_Witness ==
    \E t \in Tasks : \E u \in Tasks :
       /\ ProcOf(t) # ProcOf(u) /\ KindOf(t) = KindOf(u)
       /\ Issued(u, "Update") = 1
       /\ task[u].pc \in {"wait", "done"}
       /\ ~Current(cluster0, KindOf(t))
       /\ Current(cluster, KindOf(t))
       /\ task[t].pc = "wait"
       /\ Issued(t, "Get") = 2
       /\ Issued(t, "Create") = 0
       /\ Issued(t, "Update") = 0

\* The object has no schema, or its label is absent, unparsable or older than
\* baseline.
Stale(o) == o.spec = "noschema" \/ StaleLabel(o)

\* C16: needsUpdate is true exactly for an object without a schema or with a
\* label that is absent, unparsable or older than baseline, and false for an
\* object with a schema and a label at or above baseline, in both variants;
\* the lookup and the apply predicate go on to the update exactly for the
\* objects it is true for.
C16_NeedsUpdateExactlyWhenStale ==
    /\ [](\A k \in AllKinds :
            cluster[k].exists
            => LET o == cluster[k].obj
               IN  /\ needsUpdateV1(o) <=> Stale(o)
                   /\ needsUpdateV1beta1(o) <=> Stale(o)
                   /\ (o.spec # "noschema" /\ LabelCurrent(o))
                         => ~needsUpdateV1(o) /\ ~needsUpdateV1beta1(o))
    /\ [][\A t \in Tasks :
            (/\ Steps(t)
             /\ cluster[KindOf(t)].exists
             /\ faults' = faults)
            => /\ task[t].pc = "lookup"
                  => (task'[t].pc = "apply" <=> Stale(cluster[KindOf(t)].obj))
               /\ task[t].pc = "apply"
                  => (task'[t].pc = "update" <=> Stale(cluster[KindOf(t)].obj))]_vars

\* C16 witness: the lookup of a first run sent an object with a schema and an
\* unparsable label to the apply loop, and the lookup of the next run sent the
\* same object, by then labelled with the baseline, to the wait loop.
C16_Witness ==
    \E t \in Tasks :
       /\ cluster0[KindOf(t)].exists
       /\ cluster0[KindOf(t)].obj.labels = <<"junk">>
       /\ cluster0[KindOf(t)].obj.spec = "base"
       /\ group[ProcOf(t)].left = MaxRuns - 2
       /\ task[t].pc = "wait"
       /\ Issued(t, "Get") = 1
       /\ task[t].crd.labels = <<CustomResourceDefinitionSchemaVersion>>

C18_IdentityKindOnlyInCRDMode ==
    \A p \in Procs :
       /\ identityAllocationMode[p] # IdentityAllocationModeCRD
             => task[<<p, "identity">>] = IdleTask
       /\ group[p].state \in {"running", "returned"}
             => /\ \A k \in Kinds : task[<<p, k>>].pc # "off"
                /\ identityAllocationMode[p] = IdentityAllocationModeCRD
                      => task[<<p, "identity">>].pc # "off"
       /\ group[p].state = "returned"
             => /\ \A k \in Kinds : Issued(<<p, k>>, "Get") >= 1
                /\ identityAllocationMode[p] = IdentityAllocationModeCRD
                      => Issued(<<p, "identity">>, "Get") >= 1

\* C18 witness: a run in CRD mode has returned after it created the object of
\* the identity kind and looked up the object of the other kind.
C18_Witness ==
    /\ identityAllocationMode["a1"] = IdentityAllocationModeCRD
    /\ group["a1"].state = "returned"
    /\ Issued(<<"a1", "identity">>, "Create") = 1
    /\ cluster["identity"].exists
    /\ Issued(<<"a1", "cnp">>, "Get") >= 1

\* C19: an evaluation of the ready predicate issues its Get first and decides
\* on the object that Get returns: it reports success only if the object
\* stored at the time of the evaluation is Established=True, and a naming
\* conflict only if that object is NamesAccepted=False.
C19_DecidesOnRefetchedObject ==
    [][\A t \in Tasks :
         (task[t].pc = "wait" /\ Steps(t))
         => /\ task'[t].calls["v1"]["Get"] + task'[t].calls["v1beta1"]["Get"]
                  = Issued(t, "Get") + 1
            /\ task'[t].ret = "ok" => EstablishedIn(cluster, KindOf(t))
            /\ task'[t].pollErr \in ConflictErrs
                  => /\ cluster[KindOf(t)].exists
                     /\ HasCond(cluster[KindOf(t)].obj, "NamesAccepted", "False")]_vars

\* The phase of createUpdateCRD a task is in: lookup and create, apply loop,
\* wait loop, compensating Delete, returned.
Phase(pc) ==
    CASE pc \in {"lookup", "create"} -> 1
      [] pc \in {"apply", "update"}  -> 2
      [] pc = "wait"                 -> 3
      [] pc = "delete"               -> 4
      [] OTHER                       -> 5

\* The calls a step of task t adds to those the task has issued.
NewCalls(t, op) ==
    task'[t].calls["v1"][op] + task'[t].calls["v1beta1"][op] - Issued(t, op)

\* The operations a task may call in a phase.
PhaseOps(pc) ==
    CASE pc = "lookup" -> {"Get"}
      [] pc = "create" -> {"Create"}
      [] pc = "apply"  -> {"Get"}
      [] pc = "update" -> {"Update"}
      [] pc = "wait"   -> {"Get"}
      [] pc = "delete" -> {"Delete"}
      [] OTHER         -> {}

\* C20: the calls of one task are ordered by phase. A step of the task never
\* takes it back to an earlier phase and issues at most one call, of an
\* operation of the phase it is in; so the lookup Get and the Create precede
\* every Update, the Gets and the Update of the apply loop precede the first
\* evaluation of the ready predicate, and the Delete is issued only from the
\* end of the wait loop, with the error that ended it.
C20_CallsOrderedByPhase ==
    [][\A t \in Tasks :
         (task[t].pc \notin {"off", "done"} /\ Steps(t))
         => /\ Phase(task'[t].pc) >= Phase(task[t].pc)
            /\ \A op \in Ops :
                  /\ NewCalls(t, op) \in {0, 1}
                  /\ NewCalls(t, op) = 1 => op \in PhaseOps(task[t].pc)
            /\ task'[t].pc = "delete"
                  => task[t].pc = "wait" /\ task'[t].pollErr # Nil
            /\ task[t].pc = "delete"
                  => task'[t].pc = "done" /\ NewCalls(t, "Delete") = 1]_vars

\* C20 witness: a task has returned after a call in every phase: the lookup
\* Get, the Get and the Update of the apply loop, a Get of the wait loop and
\* the Delete.
C20_Witness ==
    /\ v1Supported
    /\ \E t \in Tasks :
          /\ task[t].pc = "done"
          /\ task[t].calls["v1"] =
                [Get |-> 3, Create |-> 0, Update |-> 1, Delete |-> 1]
          /\ task[t].pollErr # Nil

\* C21: a task about to issue its compensating Delete passes the qualified
\* name of the kind it reconciles, whichever way its wait loop failed.
C21_DeleteNamesTheKind ==
    \A t \in Tasks :
       task[t].pc = "delete" => task[t].crd.name = CRDName(KindOf(t))

\* C22: a lookup Get that fails with an error other than not-found, or a
\* Create that fails with an error other than already-exists, ends the task
\* in that step with that error and leaves the control plane as it was; the
\* task has then issued its one Get, at most the one Create, and no Update or
\* Delete.
C22_LookupOrCreateErrorIsFatal ==
    /\ [][\A t \in Tasks :
            (/\ task[t].pc \in {"lookup", "create"}
             /\ Steps(t)
             /\ faults' # faults)
            => /\ task'[t].pc = "done"
               /\ task'[t].ret = "err"
               /\ task'[t].err = ErrServer
               /\ cluster' = cluster]_vars
    /\ [](\A t \in Tasks :
            task[t].ret = "err"
            => /\ task[t].pc = "done"
               /\ task[t].err \notin {Nil, ErrNotFound, ErrAlreadyExists}
               /\ Issued(t, "Get") = 1
               /\ Issued(t, "Create") <= 1
               /\ Issued(t, "Update") = 0
               /\ Issued(t, "Delete") = 0)

\* C22 witness: a task whose lookup found nothing has returned the server
\* error of its Create, and the object is still absent.
C22_Witness ==
    \E t \in Tasks :
       /\ task[t].pc = "done"
       /\ task[t].ret = "err"
       /\ task[t].err = ErrServer
       /\ Issued(t, "Create") = 1
       /\ ~cluster[KindOf(t)].exists
       /\ cluster = cluster0

\* C23: once a task of a run has reported a fatal error, a sibling task that
\* is in its wait loop ends the loop at its next poll attempt, without going
\* on to a later attempt and without reporting a success of its own.
C23_SiblingsHonorGroupFailure ==
    [][\A t \in Tasks :
         (/\ group[ProcOf(t)].state = "running"
          /\ group[ProcOf(t)].err # Nil
          /\ task[t].pc = "wait"
          /\ Steps(t))
         => /\ task'[t].pc # "wait"
            /\ task'[t].ret # "ok"]_vars

\* A task record with the calls of both surfaces counted on the modern one.
Erase(rec) ==
    [rec EXCEPT !.calls =
        [s \in Surfaces |->
            IF s = "v1"
            THEN [op \in Ops |-> rec.calls["v1"][op] + rec.calls["v1beta1"][op]]
            ELSE NoCalls[s]]]

Bump(rec, op) == [rec EXCEPT !.calls["v1"][op] = @ + 1]
Ended(rec, r, e) == [rec EXCEPT !.pc = "done", !.ret = r, !.err = e]
Out(rec, c, f) == [task |-> rec, cluster |-> c, fault |-> f]

\* The modern path as a function of what the control plane answers: the
\* outcomes of the next step of task t from record rec when the control plane
\* holds c for its kind. An outcome is the next record, the control plane's
\* next record of the kind, and whether the call was answered with a server
\* error.
Outcomes(rec, c, t) ==
    LET k   == KindOf(t)
        crd == constructV1CRD(k)
        get == Bump(rec, "Get")
        upd == [Bump(rec, "Update") EXCEPT !.fresh = FALSE]
        del == Bump(rec, "Delete")
        cre == Bump(rec, "Create")
    IN  CASE rec.pc = "lookup" ->
               {Out(Ended(get, "err", ErrServer), c, TRUE)} \cup
               (IF c.exists THEN {Out(EnterV1(t, get, c.obj), c, FALSE)}
                ELSE {Out([get EXCEPT !.pc = "create"], c, FALSE)})
          [] rec.pc = "create" ->
               {Out(Ended(cre, "err", ErrServer), c, TRUE)} \cup
               (IF c.exists THEN {Out(Ended(cre, "raced", Nil), c, FALSE)}
                ELSE {Out(EnterV1(t, cre, crd), Stored(crd), FALSE)})
          [] rec.pc = "apply" ->
               {Out(Ended(get, "applyErr", ErrServer), c, TRUE)} \cup
               (IF ~c.exists THEN {Out(Ended(get, "applyErr", ErrNotFound), c, FALSE)}
                ELSE IF needsUpdateV1(c.obj)
                THEN {Out([get EXCEPT !.pc = "update", !.fresh = TRUE], c, FALSE)}
                ELSE {Out([get EXCEPT !.pc = "wait", !.elapsed = 1], c, FALSE)})
          [] rec.pc = "update" ->
               {Out(Ended(upd, "applyErr", ErrServer), c, TRUE)} \cup
               (IF ~c.exists THEN {Out(Ended(upd, "applyErr", ErrNotFound), c, FALSE)}
                ELSE IF ~rec.fresh
                THEN {Out(Ended(upd, "applyErr", ErrConflict), c, FALSE)}
                ELSE {Out([upd EXCEPT !.pc = "wait", !.elapsed = 1],
                          Stored(OverwriteV1(c.obj, crd)), FALSE)})
          [] rec.pc = "wait" ->
               LET scan == ScanV1(rec.crd.conds)
               IN  IF scan.verdict = "done"
                   THEN {Out(Ended(rec, "ok", Nil), c, FALSE)}
                   ELSE IF scan.verdict = "conflict"
                   THEN {Out(WaitFailedV1(rec, <<scan.reason>>), c, FALSE)}
                   ELSE {Out(WaitFailedV1([get EXCEPT !.crd = EmptyCRD], ErrServer),
                             c, TRUE)} \cup
                        (IF ~c.exists
                         THEN {Out(WaitFailedV1([get EXCEPT !.crd = EmptyCRD],
                                                ErrNotFound), c, FALSE)}
                         ELSE IF TimedOut(rec.elapsed)
                         THEN {Out(WaitFailedV1([get EXCEPT !.crd = c.obj],
                                                ErrWaitTimeout), c, FALSE)}
                         ELSE {Out([get EXCEPT !.crd = c.obj, !.elapsed = n], c, FALSE) :
                                  n \in LaterTicks(rec.elapsed)})
          [] rec.pc = "delete" ->
               {Out(Ended(del, "waitErr", Errorf("unable to delete CRD", ErrServer)),
                    c, TRUE)} \cup
               (IF rec.crd.name # CRDName(k)
                THEN {Out(Ended(del, "waitErr",
                                Errorf("unable to delete CRD", ErrInvalidName)), c, FALSE)}
                ELSE IF ~c.exists
                THEN {Out(Ended(del, "waitErr",
                                Errorf("unable to delete CRD", ErrNotFound)), c, FALSE)}
                ELSE {Out(Ended(del, "waitErr",
                                Errorf("error occurred waiting for CRD", rec.pollErr)),
                          Absent, FALSE)})
          [] OTHER -> {}

\* What a step of task t has done, with the surface of its calls erased.
Taken(t) ==
    Out(Erase(task'[t]), cluster'[KindOf(t)], faults' # faults)

EstAt(conds) ==
    {i \in 1..Len(conds) :
        conds[i].type = "Established" /\ conds[i].status = "True"}
ConfAt(conds) ==
    {i \in 1..Len(conds) :
        conds[i].type = "NamesAccepted" /\ conds[i].status = "False"}
Before(S, T) == S # {} /\ \E i \in S : \A j \in T : i < j

\* C25: the ready predicate decides by the first Established=True or
\* NamesAccepted=False condition of the list it examines: it returns success
\* if an Established=True comes before every NamesAccepted=False, it ends the
\* loop with the reason of the first NamesAccepted=False if that one comes
\* before every Established=True, and with neither in the list it goes on to
\* its Get, whatever other conditions the list holds.
C25_FirstConditionDecides ==
    [][\A t \in Tasks :
         (task[t].pc = "wait" /\ Steps(t))
         => LET conds == task[t].crd.conds
                est   == EstAt(conds)
                conf  == ConfAt(conds)
            IN  /\ Before(est, conf)
                      => task'[t].pc = "done" /\ task'[t].ret = "ok"
                /\ Before(conf, est)
                      => /\ task'[t].pc = "delete"
                         /\ \E i \in conf :
                               /\ \A j \in conf : i <= j
                               /\ task'[t].pollErr = <<conds[i].reason>>
                /\ (est = {} /\ conf = {})
                      => /\ NewCalls(t, "Get") = 1
                         /\ task'[t].ret # "ok"
                         /\ task'[t].pollErr \notin ConflictErrs]_vars

\* C25 witness: a task has returned success on a list that holds an
\* Established=True condition followed by a NamesAccepted=False condition.
C25_Witness ==
    \E t \in Tasks :
       /\ task[t].pc = "done"
       /\ task[t].ret = "ok"
       /\ Before(EstAt(task[t].crd.conds), ConfAt(task[t].crd.conds))
       /\ ConfAt(task[t].crd.conds) # {}

====
